---- MODULE Spec2Model ----
(***************************************************************************)
(* Model of msg_storer/local_uploader/uploader.go: the Uploader's          *)
(* lifecycle (onStart, startSubscriber, onStop), its message handler       *)
(* (msgHandler) and the ledger append (updateIndex), over a small          *)
(* filesystem.                                                             *)
(*                                                                         *)
(* Strings are sequences of one-character strings, so that SplitN,         *)
(* ReplaceAll, path.Dir, path.Join and Sprintf are computed the way the    *)
(* Go library computes them.  The index file name is the single symbol     *)
(* "archive.index".                                                        *)
(***************************************************************************)
EXTENDS Integers, Sequences, FiniteSets, TLC

(* ------------------------------ bounds -------------------------------- *)

\* number of handler invocations that may be in flight at once
NumHandlers == 2

\* total number of deliveries (first deliveries and redeliveries) in a run
MaxDeliveries == 2

\* longest relative suffix, in characters after the leading "/", of the
\* source paths drawn by the path-derivation specification
MaxSuffixLen == 4

Handlers == 1..NumHandlers

(* --------------------------- string library --------------------------- *)

SLASH == "/"
COLON == ":"
NL == "\n"

\* s[from..] (empty when from > Len(s))
Drop(s, n) == SubSeq(s, n + 1, Len(s))

Take(s, n) == SubSeq(s, 1, n)

HasPrefix(s, p) == Len(p) <= Len(s) /\ Take(s, Len(p)) = p

\* position of the first occurrence of character c in s, 0 if none
RECURSIVE IndexFrom(_, _, _)
IndexFrom(s, c, i) ==
    IF i > Len(s) THEN 0
    ELSE IF s[i] = c THEN i
    ELSE IndexFrom(s, c, i + 1)

Index(s, c) == IndexFrom(s, c, 1)

\* position of the last occurrence of character c in s, 0 if none
RECURSIVE LastIndexFrom(_, _, _)
LastIndexFrom(s, c, i) ==
    IF i < 1 THEN 0
    ELSE IF s[i] = c THEN i
    ELSE LastIndexFrom(s, c, i - 1)

LastIndex(s, c) == LastIndexFrom(s, c, Len(s))

\* strings.SplitN(s, sep, 2) for a one-character sep: at most two pieces,
\* the second holding the unsplit remainder; one piece when sep is absent
SplitN2(s, sep) ==
    LET i == Index(s, sep)
    IN  IF i = 0 THEN <<s>>
        ELSE <<Take(s, i - 1), Drop(s, i)>>

\* strings.ReplaceAll(s, old, new) for non-empty old: every non-overlapping
\* occurrence of old, leftmost first, is replaced
RECURSIVE ReplaceAll(_, _, _)
ReplaceAll(s, old, new) ==
    IF s = <<>> THEN <<>>
    ELSE IF HasPrefix(s, old)
         THEN new \o ReplaceAll(Drop(s, Len(old)), old, new)
         ELSE <<Head(s)>> \o ReplaceAll(Tail(s), old, new)

\* path.Clean for paths without "." and ".." elements: runs of slashes
\* collapse to one, a trailing slash is dropped unless the path is the
\* root, and the empty path becomes "."
RECURSIVE Squeeze(_)
Squeeze(s) ==
    IF Len(s) < 2 THEN s
    ELSE IF s[1] = SLASH /\ s[2] = SLASH THEN Squeeze(Tail(s))
    ELSE <<Head(s)>> \o Squeeze(Tail(s))

Clean(p) ==
    LET q == Squeeze(p)
    IN  IF q = <<>> THEN <<".">>
        ELSE IF Len(q) > 1 /\ q[Len(q)] = SLASH THEN Take(q, Len(q) - 1)
        ELSE q

\* path.Dir(p): all but the last element of p, cleaned
Dir(p) == Clean(Take(p, LastIndex(p, SLASH)))

\* path.Join(a): one element, cleaned; the empty string stays empty
Join1(a) == IF a = <<>> THEN <<>> ELSE Clean(a)

\* path.Join(a, b): non-empty elements joined with a slash, cleaned
Join2(a, b) ==
    IF a = <<>> THEN Join1(b)
    ELSE IF b = <<>> THEN Join1(a)
    ELSE Clean(a \o <<SLASH>> \o b)

\* fmt.Sprintf("%s:%s\n", seq, archiveName)
Sprintf(seq, archiveName) == seq \o <<COLON>> \o archiveName \o <<NL>>

(* ---------------------------- configuration --------------------------- *)

\* u.datastore and u.archivestore as read by onStart; the model configures
\* two short roots of different lengths
datastore == <<"/", "d">>

archivestore == <<"/", "a", "r">>

\* the fixed file name updateIndex joins to the directory
IndexName == <<"archive.index">>

(* ------------------------------ messages ------------------------------ *)

Msgs == 1..6

NoMsg == 0

\* m.Data of the messages of the feed:
\*   1  "1:/d/a/f"   a file under the datastore root
\*   2  "2:/d/a/g"   another file of the same directory
\*   3  "x"          a payload without separator
\*   4  "3:/o/f"     a file outside the datastore root
\*   5  "1:/d/a/f"   the payload of message 1, published a second time
\*   6  "3:/o/f"     the payload of message 4, published a second time
ScenarioPayload ==
    [m \in Msgs |->
        CASE m \in {1, 5} -> <<"1", ":", "/", "d", "/", "a", "/", "f">>
          [] m = 2 -> <<"2", ":", "/", "d", "/", "a", "/", "g">>
          [] m = 3 -> <<"x">>
          [] OTHER -> <<"3", ":", "/", "o", "/", "f">>]

\* the message a duplicate repeats (itself for the others)
Original(m) == CASE m = 5 -> 1 [] m = 6 -> 4 [] OTHER -> m

\* every string over chars of length at most n
RECURSIVE StringsUpTo(_, _)
StringsUpTo(chars, n) ==
    IF n = 0 THEN {<<>>}
    ELSE LET S == StringsUpTo(chars, n - 1)
         IN  S \cup {Append(s, c) : s \in S, c \in chars}

\* payloads "7:<datastore>/<rest>" for every rest of at most MaxSuffixLen
\* characters over {"/", "d", "f"}: source paths under the datastore root,
\* some of whose suffixes contain the root's name again
PathPayloads ==
    {<<"7", COLON>> \o datastore \o <<SLASH>> \o rest :
        rest \in StringsUpTo({SLASH, "d", "f"}, MaxSuffixLen)}

(* -------------------------------- state ------------------------------- *)

VARIABLES
    proc,         \* the process: "boot", "subscribing", "running", or how it ended
    stopped,      \* onStop has run
    payload,      \* payload[m]: m.Data of message m (never changes)
    status,       \* status[m]: "pending" (deliverable), "inflight", "acked"
    deliveries,   \* number of deliveries made so far
    lastNak,      \* lastNak[m]: the failed step of m's latest Nak, or "none"
    pc,           \* pc[h]: position of invocation h in msgHandler
    msg,          \* msg[h]: the message invocation h handles
    mdata,        \* mdata[h]: result of SplitN
    filename,     \* filename[h]: mdata[1] of the code
    archiveName,  \* archiveName[h]
    indexFile,    \* indexFile[h]: the ledger path h holds open, or <<>>
    steps,        \* steps[h]: what the invocation has done so far
    decision,     \* decision[h]: "none", "ack", "nak"
    prevNak,      \* prevNak[h]: lastNak of the message when it was delivered
    dirs,         \* the directories that exist
    files,        \* files[p]: identity of the regular data file at path p
    ledger,       \* ledger[p]: content of the index file at path p
    durable       \* the ledgers as they are on persistent storage

feedVars == <<payload, status, deliveries, lastNak>>
localVars == <<msg, mdata, filename, archiveName, prevNak>>
fsVars == <<dirs, files, ledger, durable>>
vars == <<proc, stopped, payload, status, deliveries, lastNak, pc, msg, mdata,
          filename, archiveName, indexFile, steps, decision, prevNak,
          dirs, files, ledger, durable>>

NoPath == <<>>

Alive == proc = "running"

(* ----------------------------- filesystem ----------------------------- *)

InitDirs ==
    { <<"/">>, <<"/", "d">>, <<"/", "d", "/", "a">>, <<"/", "o">> }

InitFiles ==
    (<<"/", "d", "/", "a", "/", "f">> :> "F1") @@
    (<<"/", "d", "/", "a", "/", "g">> :> "F2") @@
    (<<"/", "o", "/", "f">> :> "F3")

IsFile(p) == p \in DOMAIN files \/ p \in DOMAIN ledger

\* the directories os.MkdirAll(p) walks, the root left out: every prefix of
\* p that ends a path element
Chain(p) ==
    {Take(p, i) : i \in {j \in 1..Len(p) :
        p[j] # SLASH /\ (j = Len(p) \/ p[j + 1] = SLASH)}}

\* the elements of the chain at or below the first regular file in the way
Blocked(p) ==
    {c \in Chain(p) : \E b \in Chain(p) : IsFile(b) /\ Len(b) <= Len(c)}

\* the directories MkdirAll(p) would have to create
Missing(p) == {c \in Chain(p) \ Blocked(p) : c \notin dirs}

\* os.MkdirAll(p) succeeds when nothing is in the way
MkdirAllOk(p) == Blocked(p) = {}

\* the directory sets a failing MkdirAll(p) can leave: the missing
\* directories above the one whose creation failed have been created
MkdirAllFailed(p) ==
    IF Missing(p) = {} THEN {dirs}
    ELSE {dirs \cup {x \in Missing(p) : Len(x) < Len(c)} : c \in Missing(p)}

\* os.Rename(src, dst) can succeed: src is a regular file, dst is not a
\* directory and dst's directory exists
RenameOk(src, dst) ==
    /\ src \in DOMAIN files
    /\ dst \notin dirs
    /\ Dir(dst) \in dirs

\* a relocation by copy: dst gets the content and src keeps its file
Renamed_Copy(src, dst) ==
    [p \in DOMAIN files \cup {dst} |->
        IF p = dst THEN files[src] ELSE files[p]]

\* the files after os.Rename(src, dst): one atomic move that replaces dst;
\* renaming a file to itself changes nothing
Renamed(src, dst) ==
    IF src = dst THEN files
    ELSE [p \in (DOMAIN files \ {src}) \cup {dst} |->
            IF p = dst THEN files[src] ELSE files[p]]

\* os.OpenFile(p, O_APPEND|O_CREATE|O_WRONLY) can succeed
OpenOk(p) == p \notin dirs /\ Dir(p) \in dirs

\* the ledgers after the open: O_CREATE makes an empty file when absent
Opened(p) == IF p \in DOMAIN ledger THEN ledger ELSE ledger @@ (p :> <<>>)

\* the ledgers after one O_APPEND write of d to the file at p
Appended(p, d) == [ledger EXCEPT ![p] = @ \o d]

(* ------------------------------ lifecycle ----------------------------- *)

Init ==
    /\ proc = "boot"
    /\ stopped = FALSE
    /\ payload = ScenarioPayload
    /\ status = [m \in Msgs |-> "pending"]
    /\ deliveries = 0
    /\ lastNak = [m \in Msgs |-> "none"]
    /\ pc = [h \in Handlers |-> "idle"]
    /\ msg = [h \in Handlers |-> NoMsg]
    /\ mdata = [h \in Handlers |-> <<>>]
    /\ filename = [h \in Handlers |-> NoPath]
    /\ archiveName = [h \in Handlers |-> NoPath]
    /\ indexFile = [h \in Handlers |-> NoPath]
    /\ steps = [h \in Handlers |-> <<>>]
    /\ decision = [h \in Handlers |-> "none"]
    /\ prevNak = [h \in Handlers |-> "none"]
    /\ dirs = InitDirs
    /\ files = InitFiles
    /\ ledger = << >>
    /\ durable = << >>

\* onStart: os.Hostname() fails and logger.Fatal ends the process, or the
\* subscriber goroutine is spawned and onStart returns nil
onStart ==
    /\ proc = "boot"
    /\ proc' \in {"subscribing", "fatal_hostname"}
    /\ UNCHANGED <<stopped, feedVars, pc, localVars, indexFile, steps,
                   decision, fsVars>>

\* the goroutine of startSubscriber: js.Subscribe succeeds, or it fails and
\* logger.Fatal ends the process
startSubscriber ==
    /\ proc = "subscribing"
    /\ proc' \in {"running", "fatal_subscribe"}
    /\ UNCHANGED <<stopped, feedVars, pc, localVars, indexFile, steps,
                   decision, fsVars>>

\* onStop logs and returns nil; the subscription is left as it is
onStop ==
    /\ proc \in {"subscribing", "running"}
    /\ ~stopped
    /\ stopped' = TRUE
    /\ UNCHANGED <<proc, feedVars, pc, localVars, indexFile, steps,
                   decision, fsVars>>

(* ----------------------------- msgHandler ----------------------------- *)

\* the feed hands pending message m to a free invocation h (ManualAck: the
\* message stays unacknowledged until the handler decides).  Invocations
\* are interchangeable, so the lowest free one is taken; a duplicate is
\* delivered after the first delivery of the message it repeats.
Deliver(h, m) ==
    /\ Alive
    /\ pc[h] = "idle"
    /\ \A g \in Handlers : g < h => pc[g] # "idle"
    /\ status[m] = "pending"
    /\ Original(m) # m
       => (status[Original(m)] # "pending" \/ lastNak[Original(m)] # "none")
    /\ deliveries < MaxDeliveries
    /\ pc' = [pc EXCEPT ![h] = "start"]
    /\ msg' = [msg EXCEPT ![h] = m]
    /\ prevNak' = [prevNak EXCEPT ![h] = lastNak[m]]
    /\ status' = [status EXCEPT ![m] = "inflight"]
    /\ deliveries' = deliveries + 1
    /\ steps' = [steps EXCEPT ![h] = <<>>]
    /\ decision' = [decision EXCEPT ![h] = "none"]
    /\ UNCHANGED <<proc, stopped, payload, lastNak, mdata, filename,
                   archiveName, indexFile, fsVars>>

\* archiveName := strings.ReplaceAll(filename, path.Join(u.datastore),
\*                                   path.Join(u.archivestore))
ArchiveNameOf(fname) ==
    ReplaceAll(fname, Join1(datastore), Join1(archivestore))

\* mdata := strings.SplitN(string(m.Data), ":", 2); filename := mdata[1].
\* The code's mdata[1] is the second piece: with a single piece the index
\* is out of range and the runtime panic ends the process.
Parse(h) ==
    /\ Alive
    /\ pc[h] = "start"
    /\ LET parts == SplitN2(payload[msg[h]], COLON)
       IN  /\ mdata' = [mdata EXCEPT ![h] = parts]
           /\ IF Len(parts) < 2
              THEN /\ pc' = [pc EXCEPT ![h] = "panic"]
                   /\ proc' = "panic"
                   /\ UNCHANGED <<filename, archiveName>>
              ELSE /\ pc' = [pc EXCEPT ![h] = "mkdir"]
                   /\ proc' = proc
                   /\ filename' = [filename EXCEPT ![h] = parts[2]]
                   /\ archiveName' =
                        [archiveName EXCEPT ![h] = ArchiveNameOf(parts[2])]
    /\ UNCHANGED <<stopped, feedVars, msg, prevNak, indexFile, steps,
                   decision, fsVars>>

\* an error branch without its return: after the Nak the handler runs on to
\* the final m.Ack()
NakReturn_AckToo(h, cause) ==
    /\ decision' = [decision EXCEPT ![h] = "ack"]
    /\ status' = [status EXCEPT ![msg[h]] = "acked"]
    /\ lastNak' = [lastNak EXCEPT ![msg[h]] = cause]
    /\ steps' = [steps EXCEPT ![h] = @ \o <<cause, "nak", "ack">>]
    /\ pc' = [pc EXCEPT ![h] = "done"]

\* m.Nak(); u.logger.Error(...); return  -- after the step named cause failed
NakReturn(h, cause) ==
    /\ decision' = [decision EXCEPT ![h] = "nak"]
    /\ status' = [status EXCEPT ![msg[h]] = "pending"]
    /\ lastNak' = [lastNak EXCEPT ![msg[h]] = cause]
    /\ steps' = [steps EXCEPT ![h] = @ \o <<cause, "nak">>]
    /\ pc' = [pc EXCEPT ![h] = "done"]

\* what MkdirAll adds to the invocation's record: "mkdir_new" when it
\* created a directory, then its result
MkdirLog(d, result) ==
    IF d = dirs THEN <<result>> ELSE <<"mkdir_new", result>>

\* the error branch of MkdirAll without its return: the handler goes on to
\* the rename
MkdirAllErr_FallsThrough(h, cause, d) ==
    /\ dirs' = d
    /\ decision' = [decision EXCEPT ![h] = "nak"]
    /\ status' = [status EXCEPT ![msg[h]] = "pending"]
    /\ lastNak' = [lastNak EXCEPT ![msg[h]] = cause]
    /\ steps' = [steps EXCEPT ![h] = @ \o MkdirLog(d, cause) \o <<"nak">>]
    /\ pc' = [pc EXCEPT ![h] = "rename"]

\* err := os.MkdirAll(path.Dir(archiveName), 0750) returned an error, having
\* left the directories d
MkdirAllErr(h, cause, d) ==
    /\ dirs' = d
    /\ decision' = [decision EXCEPT ![h] = "nak"]
    /\ status' = [status EXCEPT ![msg[h]] = "pending"]
    /\ lastNak' = [lastNak EXCEPT ![msg[h]] = cause]
    /\ steps' = [steps EXCEPT ![h] = @ \o MkdirLog(d, cause) \o <<"nak">>]
    /\ pc' = [pc EXCEPT ![h] = "done"]

\* err := os.MkdirAll(path.Dir(archiveName), 0750): the chain cannot be made
\* (a regular file is in the way), the environment refuses (permissions,
\* disk full), or every missing directory is created
MkdirAll(h) ==
    /\ Alive
    /\ pc[h] = "mkdir"
    /\ LET target == Dir(archiveName[h])
       IN  \/ /\ ~MkdirAllOk(target)
              /\ MkdirAllErr(h, "mkdir_err", dirs \cup Missing(target))
           \/ \E d \in MkdirAllFailed(target) :
                MkdirAllErr(h, "mkdir_fault", d)
           \/ /\ MkdirAllOk(target)
              /\ dirs' = dirs \cup Missing(target)
              /\ steps' = [steps EXCEPT ![h] =
                    @ \o MkdirLog(dirs \cup Missing(target), "mkdir_ok")]
              /\ pc' = [pc EXCEPT ![h] = "rename"]
              /\ UNCHANGED <<decision, status, lastNak>>
    /\ UNCHANGED <<proc, stopped, payload, deliveries, localVars, indexFile,
                   files, ledger, durable>>

\* the rename with its error ignored: the handler goes on to updateIndex
\* although the file was not moved
Rename_IgnoresError(h) ==
    /\ Alive
    /\ pc[h] = "rename"
    /\ \/ /\ ~RenameOk(filename[h], archiveName[h])
          /\ steps' = [steps EXCEPT ![h] = Append(@, "rename_err")]
          /\ UNCHANGED files
       \/ /\ steps' = [steps EXCEPT ![h] = Append(@, "rename_fault")]
          /\ UNCHANGED files
       \/ /\ RenameOk(filename[h], archiveName[h])
          /\ files' = Renamed(filename[h], archiveName[h])
          /\ steps' = [steps EXCEPT ![h] = Append(@, "rename_ok")]
    /\ pc' = [pc EXCEPT ![h] = "open"]
    /\ UNCHANGED <<decision, status, lastNak>>
    /\ UNCHANGED <<proc, stopped, payload, deliveries, localVars, indexFile,
                   dirs, ledger, durable>>

\* the rename with a retry inside the invocation: after a first refusal by
\* the environment the handler calls os.Rename again
Rename_Retries(h) ==
    /\ Alive
    /\ pc[h] = "rename"
    /\ \/ /\ ~RenameOk(filename[h], archiveName[h])
          /\ NakReturn(h, "rename_err")
          /\ UNCHANGED files
       \/ /\ \E i \in 1..Len(steps[h]) : steps[h][i] = "rename_fault"
          /\ NakReturn(h, "rename_fault")
          /\ UNCHANGED files
       \/ /\ \A i \in 1..Len(steps[h]) : steps[h][i] # "rename_fault"
          /\ steps' = [steps EXCEPT ![h] = Append(@, "rename_fault")]
          /\ UNCHANGED <<pc, decision, status, lastNak, files>>
       \/ /\ RenameOk(filename[h], archiveName[h])
          /\ files' = Renamed(filename[h], archiveName[h])
          /\ steps' = [steps EXCEPT ![h] = Append(@, "rename_ok")]
          /\ pc' = [pc EXCEPT ![h] = "open"]
          /\ UNCHANGED <<decision, status, lastNak>>
    /\ UNCHANGED <<proc, stopped, payload, deliveries, localVars, indexFile,
                   dirs, ledger, durable>>

\* os.Rename(filename, archiveName): fails on its own (no source file, a
\* directory in the way), is refused by the environment (cross-device,
\* permissions), or moves the file
Rename(h) ==
    /\ Alive
    /\ pc[h] = "rename"
    /\ \/ /\ ~RenameOk(filename[h], archiveName[h])
          /\ NakReturn(h, "rename_err")
          /\ UNCHANGED files
       \/ /\ NakReturn(h, "rename_fault")
          /\ UNCHANGED files
       \/ /\ RenameOk(filename[h], archiveName[h])
          /\ files' = Renamed(filename[h], archiveName[h])
          /\ steps' = [steps EXCEPT ![h] = Append(@, "rename_ok")]
          /\ pc' = [pc EXCEPT ![h] = "open"]
          /\ UNCHANGED <<decision, status, lastNak>>
    /\ UNCHANGED <<proc, stopped, payload, deliveries, localVars, indexFile,
                   dirs, ledger, durable>>

\* updateIndex: dstDir := path.Dir(filename);
\*              indexFilename := path.Join(dstDir, "archive.index")
IndexFilename(fname) == Join2(Dir(fname), IndexName)

\* updateIndex: data := fmt.Sprintf("%s:%s\n", seq, archiveName)
IndexData(seq, aname) == Sprintf(seq, aname)

\* the filename argument msgHandler passes to updateIndex:
\* u.updateIndex(filename, archiveName, mdata[0])
UpdateIndexArg(h) == filename[h]

\* updateIndex up to os.OpenFile: the open fails (returned to msgHandler,
\* which naks) or the ledger is open for appending
OpenIndex(h) ==
    /\ Alive
    /\ pc[h] = "open"
    /\ LET p == IndexFilename(UpdateIndexArg(h))
       IN  \/ /\ ~OpenOk(p)
              /\ NakReturn(h, "open_err")
              /\ UNCHANGED <<ledger, indexFile>>
           \/ /\ NakReturn(h, "open_fault")
              /\ UNCHANGED <<ledger, indexFile>>
           \/ /\ OpenOk(p)
              /\ ledger' = Opened(p)
              /\ indexFile' = [indexFile EXCEPT ![h] = p]
              /\ steps' = [steps EXCEPT ![h] = Append(@, "open_ok")]
              /\ pc' = [pc EXCEPT ![h] = "write"]
              /\ UNCHANGED <<decision, status, lastNak>>
    /\ UNCHANGED <<proc, stopped, payload, deliveries, localVars, dirs, files,
                   durable>>

\* updateIndex from indexFile.WriteString to its return (the deferred Close
\* runs), then msgHandler's Nak on an error or its final m.Ack().  A failed
\* write is taken to have written nothing.
WriteIndex(h) ==
    /\ Alive
    /\ pc[h] = "write"
    /\ indexFile' = [indexFile EXCEPT ![h] = NoPath]
    /\ \/ /\ NakReturn(h, "write_fault")
          /\ UNCHANGED ledger
       \/ /\ ledger' = Appended(indexFile[h],
                                IndexData(mdata[h][1], archiveName[h]))
          /\ steps' = [steps EXCEPT ![h] = @ \o <<"write_ok", "ack">>]
          /\ decision' = [decision EXCEPT ![h] = "ack"]
          /\ status' = [status EXCEPT ![msg[h]] = "acked"]
          /\ pc' = [pc EXCEPT ![h] = "done"]
          /\ UNCHANGED lastNak
    /\ UNCHANGED <<proc, stopped, payload, deliveries, localVars, dirs, files,
                   durable>>

\* msgHandler has returned; the invocation slot is free again
Return(h) ==
    /\ Alive
    /\ pc[h] = "done"
    /\ pc' = [pc EXCEPT ![h] = "idle"]
    /\ msg' = [msg EXCEPT ![h] = NoMsg]
    /\ mdata' = [mdata EXCEPT ![h] = <<>>]
    /\ filename' = [filename EXCEPT ![h] = NoPath]
    /\ archiveName' = [archiveName EXCEPT ![h] = NoPath]
    /\ prevNak' = [prevNak EXCEPT ![h] = "none"]
    /\ steps' = [steps EXCEPT ![h] = <<>>]
    /\ decision' = [decision EXCEPT ![h] = "none"]
    /\ UNCHANGED <<proc, stopped, feedVars, indexFile, fsVars>>

\* the kernel writes the cached content of the index files back to
\* persistent storage, as it does at a time of its own choosing for files
\* written without Sync
Writeback ==
    /\ durable # ledger
    /\ durable' = ledger
    /\ UNCHANGED <<proc, stopped, feedVars, pc, localVars, indexFile, steps,
                   decision, dirs, files, ledger>>

msgHandler(h) ==
    \/ Parse(h)
    \/ MkdirAll(h)
    \/ Rename(h)
    \/ OpenIndex(h)
    \/ WriteIndex(h)
    \/ Return(h)

Next ==
    \/ onStart
    \/ startSubscriber
    \/ onStop
    \/ \E h \in Handlers : \E m \in Msgs : Deliver(h, m)
    \/ \E h \in Handlers : msgHandler(h)
    \/ Writeback

Spec == Init /\ [][Next]_vars

(* ------------------- path derivation on bounded inputs ----------------- *)

\* an invocation that has just been handed a message whose payload names
\* any bounded source path under the datastore root
InitPath ==
    /\ proc = "running"
    /\ stopped = FALSE
    /\ \E data \in PathPayloads : payload = [m \in Msgs |-> data]
    /\ status = [m \in Msgs |-> IF m = 1 THEN "inflight" ELSE "pending"]
    /\ deliveries = 1
    /\ lastNak = [m \in Msgs |-> "none"]
    /\ pc = [h \in Handlers |-> IF h = 1 THEN "start" ELSE "idle"]
    /\ msg = [h \in Handlers |-> IF h = 1 THEN 1 ELSE NoMsg]
    /\ mdata = [h \in Handlers |-> <<>>]
    /\ filename = [h \in Handlers |-> NoPath]
    /\ archiveName = [h \in Handlers |-> NoPath]
    /\ indexFile = [h \in Handlers |-> NoPath]
    /\ steps = [h \in Handlers |-> <<>>]
    /\ decision = [h \in Handlers |-> "none"]
    /\ prevNak = [h \in Handlers |-> "none"]
    /\ dirs = InitDirs
    /\ files = InitFiles
    /\ ledger = << >>
    /\ durable = << >>

NextPath == \E h \in Handlers : Parse(h)

SpecPath == InitPath /\ [][NextPath]_vars

(* ------------------------ vocabulary of the claims --------------------- *)

\* invocation h has the entry tok in its record
Did(h, tok) == \E i \in 1..Len(steps[h]) : steps[h][i] = tok

\* invocation h has ended: msgHandler returned, or it panicked
Finished(h) == pc[h] \in {"done", "panic"}

\* invocation h has computed its paths
Parsed(h) == pc[h] \in {"mkdir", "rename", "open", "write", "done"}

WellFormed(data) == Index(data, COLON) > 0

\* src lies under the directory root
UnderRoot(src, root) == HasPrefix(src, root \o <<SLASH>>)

\* the archive path the data model defines: the datastore root at the front
\* of src replaced by the archivestore root, the rest of src kept
PrefixSwap(src) == archivestore \o Drop(src, Len(datastore))

\* the complete lines of a ledger's content, in order, then what follows the
\* last newline when that is not empty
RECURSIVE Lines(_)
Lines(c) ==
    IF c = <<>> THEN <<>>
    ELSE LET i == Index(c, NL)
         IN  IF i = 0 THEN <<c>>
             ELSE <<Take(c, i - 1)>> \o Lines(Drop(c, i))

Terminated(c) == c = <<>> \/ c[Len(c)] = NL

\* the index file at path p holds the line "<seq>:<name>"
HasLine(p, seq, name) ==
    /\ p \in DOMAIN ledger
    /\ \E i \in 1..Len(Lines(ledger[p])) :
         Lines(ledger[p])[i] = seq \o <<COLON>> \o name

MkdirFailed(h) == Did(h, "mkdir_err") \/ Did(h, "mkdir_fault")

RenameAttempted(h) ==
    Did(h, "rename_ok") \/ Did(h, "rename_err") \/ Did(h, "rename_fault")

LedgerFailed(h) ==
    Did(h, "open_err") \/ Did(h, "open_fault") \/ Did(h, "write_fault")

LedgerAttempted(h) == Did(h, "open_ok") \/ LedgerFailed(h)

AllSucceeded(h) ==
    Did(h, "mkdir_ok") /\ Did(h, "rename_ok") /\ Did(h, "write_ok")

(* ------------------------------- claims ------------------------------- *)

\* C1: for a job whose source lies under the datastore root and whose
\* directory creation, rename and ledger write all succeeded, once the
\* handler has returned the file is at the archive path, the archive.index
\* in the parent directory of the archive path (under the archivestore
\* root) holds the line "<sequence>:<archivePath>", and the message is
\* positively acknowledged.
C1_LedgerInArchiveDir ==
    \A h \in Handlers :
        ( /\ pc[h] = "done"
          /\ AllSucceeded(h)
          /\ UnderRoot(filename[h], datastore) )
        => LET archivePath == PrefixSwap(filename[h])
           IN  /\ archivePath \in DOMAIN files
               /\ UnderRoot(Join2(Dir(archivePath), IndexName), archivestore)
               /\ HasLine(Join2(Dir(archivePath), IndexName),
                          mdata[h][1], archivePath)
               /\ decision[h] = "ack"
               /\ status[msg[h]] = "acked"

\* C2: handling a payload without ':' ends in a negative acknowledgment,
\* and the invocation performs no filesystem operation.
C2_NoSeparatorNak ==
    \A h \in Handlers :
        (Finished(h) /\ ~WellFormed(payload[msg[h]]))
        => /\ decision[h] = "nak"
           /\ steps[h] = <<"nak">>

\* C3: a well-formed payload whose source is not under the datastore root
\* is rejected: never positively acknowledged, negatively acknowledged when
\* the handler ends, and the invocation creates no directory, renames no
\* file and writes no ledger line.
C3_OutsideRootRejected ==
    \A h \in Handlers :
        (Parsed(h) /\ ~UnderRoot(filename[h], datastore))
        => /\ decision[h] # "ack"
           /\ Finished(h) => decision[h] = "nak"
           /\ ~Did(h, "mkdir_new")
           /\ ~Did(h, "rename_ok")
           /\ ~Did(h, "write_ok")

\* C4: an invocation that has ended acknowledged its message positively
\* exactly when directory creation, rename and ledger write all succeeded
\* in it; in every other outcome it acknowledged negatively.
C4_AckPolicy ==
    \A h \in Handlers :
        Finished(h)
        => /\ decision[h] = "ack" <=> AllSucceeded(h)
           /\ ~AllSucceeded(h) => decision[h] = "nak"

\* C5: for every source path under the datastore root the computed archive
\* path is the archivestore root followed by the source's relative suffix,
\* kept exactly as it is: only the leading root is substituted.
C5_PrefixSwap ==
    \A h \in Handlers :
        (Parsed(h) /\ UnderRoot(filename[h], datastore))
        => archiveName[h] = PrefixSwap(filename[h])

\* the messages acknowledged positively whose file went into directory d
ArchivedInto(d) ==
    {m \in Msgs : /\ status[m] = "acked"
                  /\ WellFormed(payload[m])
                  /\ Dir(ArchiveNameOf(SplitN2(payload[m], COLON)[2])) = d}

\* the ledger line of message m
LineOf(m) ==
    LET parts == SplitN2(payload[m], COLON)
    IN  parts[1] \o <<COLON>> \o ArchiveNameOf(parts[2])

\* the archive.index of directory d holds exactly one whole line for each
\* job archived into d
LedgerWhole(d) ==
    LET p == Join2(d, IndexName)
        c == IF p \in DOMAIN ledger THEN ledger[p] ELSE <<>>
    IN  /\ Terminated(c)
        /\ Len(Lines(c)) = Cardinality(ArchivedInto(d))
        /\ \A m \in ArchivedInto(d) :
             \E i \in 1..Len(Lines(c)) : Lines(c)[i] = LineOf(m)

\* no two invocations hold the same ledger file open at once
LedgerExclusive ==
    \A g, h \in Handlers :
        (g # h /\ indexFile[g] # NoPath) => indexFile[g] # indexFile[h]

\* C6: whatever the interleaving, the archive.index of a destination
\* directory holds exactly one well-formed line for each successful job
\* into that directory, and the open-write sequence on a ledger file is
\* mutually exclusive between invocations.
C6_LedgerIntegrity ==
    /\ \A m \in Msgs :
         (status[m] = "acked" /\ WellFormed(payload[m]))
         => LedgerWhole(Dir(ArchiveNameOf(SplitN2(payload[m], COLON)[2])))
    /\ LedgerExclusive

\* the step an environmental refusal failed: these clear by themselves
TransientCauses == {"mkdir_fault", "rename_fault", "open_fault", "write_fault"}

\* invocation h met no refusal by the environment
Unhindered(h) == \A c \in TransientCauses : ~Did(h, c)

\* C7: a message negatively acknowledged because directory creation, the
\* rename, or the ledger write after a successful rename was refused by the
\* environment succeeds on a redelivery that meets no such refusal: it ends
\* in a positive acknowledgment, the file archived and its line written.
C7_RedeliverySucceeds ==
    \A h \in Handlers :
        ( /\ pc[h] = "done"
          /\ prevNak[h] \in TransientCauses
          /\ Unhindered(h) )
        => /\ decision[h] = "ack"
           /\ archiveName[h] \in DOMAIN files
           /\ Did(h, "write_ok")

\* C8: the only way the process ends is the failure to resolve the host
\* name at startup: no payload and no filesystem outcome makes a handler
\* invocation end the process, and a subscription failure does not.
C8_OnlyHostnameFatal ==
    /\ proc \in {"boot", "subscribing", "running", "fatal_hostname"}
    /\ \A h \in Handlers : pc[h] # "panic"
    /\ \A h \in Handlers : pc[h] = "done" => decision[h] \in {"ack", "nak"}

\* C9: when the ledger write fails after a successful rename, the
\* invocation ends with a negative acknowledgment, the file is at the
\* archive path and no file is at the source path.
C9_NoRollback ==
    \A h \in Handlers :
        (pc[h] = "done" /\ Did(h, "rename_ok") /\ LedgerFailed(h))
        => /\ decision[h] = "nak"
           /\ archiveName[h] \in DOMAIN files
           /\ filename[h] \notin DOMAIN files

\* the step in which invocation h finds that MkdirAll failed
MkdirFailsNow(h) == ~MkdirFailed(h) /\ MkdirFailed(h)'

\* C10: when creation of the destination directory chain fails, the step
\* acknowledges negatively and leaves every file and every ledger as they
\* are, and the invocation attempts neither the rename nor a ledger write:
\* all it does afterwards is return.
C10_MkdirFailureStops ==
    [][\A h \in Handlers :
        /\ MkdirFailsNow(h)
           => /\ files' = files
              /\ ledger' = ledger
              /\ decision'[h] = "nak"
              /\ status'[msg[h]] = "pending"
              /\ ~RenameAttempted(h)' /\ ~LedgerAttempted(h)'
        /\ MkdirFailed(h)
           => /\ steps'[h] \in {steps[h], <<>>}
              /\ pc'[h] \in {"done", "idle"}]_vars

\* an invocation was refused the directory creation and has acknowledged
\* negatively, its source file still in place
C10_Witness ==
    \E h \in Handlers :
        /\ MkdirFailed(h)
        /\ pc[h] = "done"
        /\ decision[h] = "nak"
        /\ filename[h] \in DOMAIN files
        /\ filename[h] # archiveName[h]

\* the lines of c are pairwise different
NoRepeatedLine(c) ==
    \A i, j \in 1..Len(Lines(c)) : Lines(c)[i] = Lines(c)[j] => i = j

\* C11: processing the same payload twice (messages 1 and 5, messages 4 and
\* 6, or a redelivery) leaves what the first successful processing left: no
\* archive.index holds the line of a (sequence, archiveName) pair twice, and
\* no file is present at two paths.
C11_NoDuplicateEffect ==
    /\ \A p \in DOMAIN ledger : NoRepeatedLine(ledger[p])
    /\ \A p, q \in DOMAIN files : files[p] = files[q] => p = q

\* the well-formed payloads of the feed: the jobs
Jobs == {payload[m] : m \in {n \in Msgs : WellFormed(payload[n])}}

SourceOf(job) == SplitN2(job, COLON)[2]

TargetOf(job) == ArchiveNameOf(SourceOf(job))

\* the job's file has been moved: it is at the archive path and no longer
\* at the source path
Moved(job) ==
    /\ TargetOf(job) \in DOMAIN files
    /\ SourceOf(job) \notin DOMAIN files

\* no invocation of the job stands between its rename and the outcome of
\* its ledger write
Settled(job) ==
    \A h \in Handlers :
        (msg[h] # NoMsg /\ payload[msg[h]] = job)
        => pc[h] \notin {"open", "write"}

\* how many lines of c equal line
CountLine(c, line) ==
    Cardinality({i \in 1..Len(Lines(c)) : Lines(c)[i] = line})

\* existing ledger content is never rewritten or deleted: a ledger only
\* grows at its end
LedgerAppendOnly ==
    [][\A p \in DOMAIN ledger :
        p \in DOMAIN ledger' /\ HasPrefix(ledger'[p], ledger[p])]_vars

\* C12: whenever no invocation is between a rename and its ledger write,
\* the archive.index of each destination directory holds exactly one entry
\* for each job whose file was moved into that directory, and none for a
\* job whose file was not (jobs whose archive path differs from the source
\* path; the order of the entries is not part of this formula).
C12_IndexInvariant ==
    \A job \in Jobs :
        (SourceOf(job) # TargetOf(job) /\ Settled(job))
        => LET p == Join2(Dir(TargetOf(job)), IndexName)
               c == IF p \in DOMAIN ledger THEN ledger[p] ELSE <<>>
               line == SplitN2(job, COLON)[1] \o <<COLON>> \o TargetOf(job)
           IN  CountLine(c, line) = IF Moved(job) THEN 1 ELSE 0

\* how many entries of invocation h's record are among toks
Count(h, toks) ==
    Cardinality({i \in 1..Len(steps[h]) : steps[h][i] \in toks})

MkdirResults == {"mkdir_ok", "mkdir_err", "mkdir_fault"}

RenameResults == {"rename_ok", "rename_err", "rename_fault"}

OpenResults == {"open_ok", "open_err", "open_fault"}

WriteResults == {"write_ok", "write_fault"}

\* C13 as stated: every invocation that returned made exactly one rename
\* attempt.
C13_ExactlyOneRename ==
    \A h \in Handlers : pc[h] = "done" => Count(h, RenameResults) = 1

\* C13: an invocation calls MkdirAll, Rename, the ledger open and the
\* ledger write at most once each, so no step is retried inside it; a
\* returned invocation made exactly one rename attempt when its directory
\* creation succeeded and none when it failed.
C13_NoRetry ==
    \A h \in Handlers :
        /\ Count(h, MkdirResults) <= 1
        /\ Count(h, RenameResults) <= 1
        /\ Count(h, OpenResults) <= 1
        /\ Count(h, WriteResults) <= 1
        /\ pc[h] = "done"
           => Count(h, RenameResults) = IF Did(h, "mkdir_ok") THEN 1 ELSE 0

\* one invocation returned without a rename attempt, its directory creation
\* having failed, and another returned after a single refused rename
C13_Witness ==
    \E h, g \in Handlers :
        /\ pc[h] = "done" /\ MkdirFailed(h) /\ Count(h, RenameResults) = 0
        /\ pc[g] = "done" /\ Did(g, "rename_fault")
        /\ Count(g, RenameResults) = 1

\* the line of message m is in what persistent storage holds of some ledger
DurableLine(m) ==
    \E p \in DOMAIN durable :
        \E i \in 1..Len(Lines(durable[p])) : Lines(durable[p])[i] = LineOf(m)

\* C14: whenever a message is positively acknowledged, its ledger line is
\* in persistent storage (in whichever archive.index it was written to), so
\* a crash at any point after the acknowledgment cannot lose it.
C14_AckedLineDurable ==
    \A m \in Msgs : status[m] = "acked" => DurableLine(m)

\* two different invocations work on the same source path
SameSource(h, g) ==
    /\ h # g
    /\ Parsed(h) /\ Parsed(g)
    /\ filename[h] = filename[g]

\* C15: of two invocations on the same source path at most one gets its
\* rename through, at most one is positively acknowledged, and the ledger
\* holds at most one line for the file.
C15_FirstRenameWins ==
    \A h, g \in Handlers :
        SameSource(h, g)
        => /\ ~(Did(h, "rename_ok") /\ Did(g, "rename_ok"))
           /\ ~(decision[h] = "ack" /\ decision[g] = "ack")
           /\ LET p == IndexFilename(filename[h])
                  c == IF p \in DOMAIN ledger THEN ledger[p] ELSE <<>>
              IN  CountLine(c, IndexData(mdata[h][1], archiveName[h])) <= 1

\* source path and archive path of every well-formed job of the scenario
ScenarioMoves ==
    {<<SourceOf(ScenarioPayload[m]), TargetOf(ScenarioPayload[m])>> :
        m \in {n \in Msgs : WellFormed(ScenarioPayload[n])}}

\* the paths that hold the file that was at src at the start
HoldersOf(src) == {p \in DOMAIN files : files[p] = InitFiles[src]}

\* the file of every job whose archive path differs from its source path is
\* at exactly one place, its source path or its archive path
OnePlace ==
    \A mv \in ScenarioMoves :
        LET src == mv[1]
            dst == mv[2]
        IN  src # dst
            => /\ Cardinality(HoldersOf(src)) = 1
               /\ HoldersOf(src) \subseteq {src, dst}
               /\ (src \in DOMAIN files) # (dst \in DOMAIN files)

C17_NoStartAfterStop ==
    [][\A h \in Handlers :
        (stopped /\ pc[h] = "idle") => pc'[h] = "idle"]_vars

Decisions == {"ack", "nak"}

\* invocation h has decided exactly once, as the last thing it did
DecidedOnce(h) ==
    /\ Count(h, Decisions) = Cardinality({decision[h]} \cap Decisions)
    /\ pc[h] = "done" <=> Count(h, Decisions) = 1
    /\ pc[h] = "done"
       => /\ steps[h][Len(steps[h])] = decision[h]
          /\ decision[h] = "ack" <=> Did(h, "write_ok")

\* C18: an invocation on a payload with a ':' separator issues no decision
\* before it returns and exactly one, an Ack or a Nak, when it returns;
\* the decision is the last entry of its record and its remaining step, the
\* return, leaves directories, files and ledgers alone.
C18_OneDecision ==
    /\ \A h \in Handlers : Parsed(h) => DecidedOnce(h)
    /\ [][\A h \in Handlers :
            /\ (Parsed(h))' => DecidedOnce(h)'
            /\ (pc[h] = "done" /\ pc'[h] # "done")
               => UNCHANGED <<dirs, files, ledger>>]_vars

\* one invocation has returned with an Ack and another with a Nak, each
\* with a single decision
C18_Witness ==
    \E h, g \in Handlers :
        /\ pc[h] = "done" /\ decision[h] = "ack"
        /\ Count(h, Decisions) = 1
        /\ pc[g] = "done" /\ decision[g] = "nak"
        /\ Count(g, Decisions) = 1

\* the entries a step that succeeded leaves in the record
OkResults == {"mkdir_new", "mkdir_ok", "rename_ok", "open_ok", "write_ok"}

\* the entry that may follow entry tok when tok's step succeeded
FollowsOk(tok, next) ==
    CASE tok = "mkdir_new" -> next \in MkdirResults
      [] tok = "mkdir_ok"  -> next \in RenameResults
      [] tok = "rename_ok" -> next \in OpenResults
      [] tok = "open_ok"   -> next \in WriteResults
      [] tok = "write_ok"  -> next = "ack"
      [] OTHER             -> FALSE

\* the record of invocation h runs through directory creation, rename,
\* ledger open, ledger write and Ack in this order, every step after a
\* success of the one before, and a failure is followed by the Nak only
InOrder(h) ==
    /\ steps[h] # <<>>
       => steps[h][1] \in MkdirResults \cup {"mkdir_new"}
    /\ \A i \in 1..(Len(steps[h]) - 1) :
         IF steps[h][i] \in OkResults
         THEN FollowsOk(steps[h][i], steps[h][i + 1])
         ELSE steps[h][i + 1] = "nak" /\ i + 1 = Len(steps[h])

\* C19: the steps of an invocation are directory creation, rename, ledger
\* append and Ack in this order, each attempted only after the one before
\* succeeded; an invocation that naks at the directory creation or at the
\* rename leaves every ledger unchanged, and a ledger only ever changes by
\* a step of an invocation whose rename has succeeded.
C19_StepOrder ==
    /\ \A h \in Handlers : InOrder(h)
    /\ [][/\ \A h \in Handlers : InOrder(h)'
          /\ \A h \in Handlers :
                (pc[h] \in {"mkdir", "rename"} /\ pc'[h] = "done")
                => ledger' = ledger
          /\ ledger' # ledger
             => \E h \in Handlers :
                    /\ pc[h] \in {"open", "write"}
                    /\ pc'[h] # pc[h]
                    /\ Did(h, "mkdir_ok")
                    /\ Did(h, "rename_ok")]_vars

\* one invocation went through all four steps and its line is in a ledger,
\* another was refused at the rename and has nak'ed
C19_Witness ==
    \E h, g \in Handlers :
        /\ pc[h] = "done" /\ Did(h, "write_ok") /\ Did(h, "ack")
        /\ HasLine(IndexFilename(filename[h]), mdata[h][1], archiveName[h])
        /\ pc[g] = "done" /\ Did(g, "rename_fault") /\ Did(g, "nak")

====
